---------------------------- MODULE Spec2Model ----------------------------
(***************************************************************************)
(* A model of zpl/label.py: the Label class, which accumulates ZPL2        *)
(* commands in the string self.code.                                       *)
(*                                                                         *)
(* Strings are TLA+ strings.  A Python number is an exact rational with    *)
(* the fixed denominator Den: the integer n stands for n/Den (n = 3, Den = *)
(* 2 is 1.5).  All values drawn below are dyadic, so the float arithmetic  *)
(* of the source is exact on them.  An optional argument is None (<<>>) or *)
(* a one-element tuple holding the value.                                  *)
(***************************************************************************)
EXTENDS Integers, Sequences, FiniteSets, TLC

VARIABLES
    code,     \* Label.code, the command buffer
    height,   \* Label.height (millimeters, in 1/Den)
    width,    \* Label.width  (millimeters, in 1/Den)
    dpmm,     \* Label.dpmm   (dots per millimeter, in 1/Den)
    last,     \* the last call: its name, arguments, the buffer before it, its error, its return value
    hist,     \* history: rotate_180 of the constructor, the text each successful call added, the calls made
    ncalls    \* number of calls made so far

vars == <<code, height, width, dpmm, last, hist, ncalls>>

\* Longest call sequence explored.
MaxCalls == 3

\* Longest call sequence explored when one method is given its full argument sets.
MaxRichCalls == 1

\* Largest packed bitmap, in bytes.
MaxBytes == 600

\* Denominator of the rationals: the integer n stands for the number n/Den.
Den == 2

-----------------------------------------------------------------------------
(* Python values *)

None == <<>>

Some(v) == <<v>>

\* Python truthiness of an optional number: None and 0 are false.
TruthyNum(v) == v # None /\ v[1] # 0

\* Python truthiness of an optional string: None and '' are false.
TruthyStr(v) == v # None /\ v[1] # ""

\* s[i] as a one-character string, '' outside the string.
Ch(s, i) == IF i >= 1 /\ i <= Len(s) THEN SubSeq(s, i, i) ELSE ""

\* Python's s[i-1:j] for 1 <= i: slicing clamps to the string.
Slice(s, i, j) == IF j > Len(s) THEN SubSeq(s, i, Len(s)) ELSE SubSeq(s, i, j)

\* Python's `t in s` for strings: t occurs in s as a substring.
InStr(t, s) == \E i \in 1..(Len(s) + 1) : Slice(s, i, i + Len(t) - 1) = t

\* Python's `x in [..]` for a list of strings.
InList(x, l) == \E i \in 1..Len(l) : l[i] = x

IsPrefix(p, s) == Len(p) <= Len(s) /\ SubSeq(s, 1, Len(p)) = p

\* What follows the prefix of length Len(p) in s.
Suffix(p, s) == SubSeq(s, Len(p) + 1, Len(s))

\* int(n/d) for a float n/d: truncation toward zero.
Trunc(n, d) == IF n >= 0 THEN n \div d ELSE -((-n) \div d)

\* math.ceil(n/d), d > 0.
Ceil(n, d) == -((-n) \div d)

Digit(d) == SubSeq("0123456789", d + 1, d + 1)

RECURSIVE FmtNat(_)
FmtNat(n) == IF n < 10 THEN Digit(n) ELSE FmtNat(n \div 10) \o Digit(n % 10)

\* "%i" % n for a Python int n.
FmtInt(n) == IF n < 0 THEN "-" \o FmtNat(-n) ELSE FmtNat(n)

\* "%i" rounding to the nearest integer instead of dropping the fraction.
FmtI_round(n, d) == FmtInt((2 * n + d) \div (2 * d))

\* "%i" % x for the float x = n/d: the fraction is dropped.
FmtI(n, d) == FmtInt(Trunc(n, d))

\* "%i" % (v*self.dpmm) for a millimeter value v.
FmtDots(v, dp) == FmtI(v * dp, Den * Den)

\* "%c" % s accepts a string of length one only (TypeError otherwise).
IsChar(s) == Len(s) = 1

UPPER == "ABCDEFGHIJKLMNOPQRSTUVWXYZ"

LOWER == "abcdefghijklmnopqrstuvwxyz"

DIGITS == "0123456789"

\* ch is one of the characters of cls.
InClass(ch, cls) == Len(ch) = 1 /\ \E i \in 1..Len(cls) : SubSeq(cls, i, i) = ch

\* Every character of s[i-1:j] is of cls.
AllIn(s, i, j, cls) == \A k \in i..j : InClass(Ch(s, k), cls)

\* re.match(r'^[A-Z0-9]$', s): $ also matches before a final newline.
MatchGlyph(s) ==
    /\ InClass(Ch(s, 1), UPPER \o DIGITS)
    /\ \/ Len(s) = 1
       \/ Len(s) = 2 /\ Ch(s, 2) = "\n"

\* re.match(r'[A-Z0-9]', s): the first character only.
MatchGlyphPrefix(s) == InClass(Ch(s, 1), UPPER \o DIGITS)

\* re.match(r'[REBA]?:[A-Z0-9\_]+\.(FNT|TTF|TTE)', s): anchored at the start only.
MatchFontFile(s) ==
    \E p \in {0, 1} :
        /\ p = 1 => InClass(Ch(s, 1), "REBA")
        /\ Ch(s, p + 1) = ":"
        /\ \E k \in 1..Len(s) :
              /\ AllIn(s, p + 2, p + 1 + k, UPPER \o DIGITS \o "_")
              /\ Ch(s, p + 2 + k) = "."
              /\ Slice(s, p + 3 + k, p + 5 + k) \in {"FNT", "TTF", "TTE"}

\* re.match("^[a-zA-Z0-9 ]+$", s): $ also matches before a final newline.
MatchName(s) ==
    LET n == IF Len(s) >= 2 /\ Ch(s, Len(s)) = "\n" THEN Len(s) - 1 ELSE Len(s)
    IN  n >= 1 /\ AllIn(s, 1, n, LOWER \o UPPER \o DIGITS \o " ")

-----------------------------------------------------------------------------
(* The outcome of a method: the buffer it leaves, the exception it raised  *)
(* ("" when it returned), and its return value.                            *)

Ok(c) == [code |-> c, err |-> "", ret |-> None]

Returns(c, v) == [code |-> c, err |-> "", ret |-> Some(v)]

Raise(c, e) == [code |-> c, err |-> e, ret |-> None]

-----------------------------------------------------------------------------
(* The methods of Label.  c is self.code before the call, dp is self.dpmm, *)
(* a is the record of the call's arguments.                                *)

\* Label.__init__: the buffer after construction.
InitCode(rotate_180) == "^XA" \o (IF rotate_180 THEN "^POI" ELSE "")

origin(c, dp, a) ==
    Ok(c \o "^FO" \o FmtDots(a.x, dp) \o "," \o FmtDots(a.y, dp))

endorigin(c, dp, a) == Ok(c \o "^FS")

\* textblock testing the justification as write_text does, with `in "LRCJ"`.
textblock_substr(c, dp, a) ==
    IF ~InStr(a.justification, "LRCJ")
    THEN Raise(c, "AssertionError")
    ELSE Ok(c \o "^FB" \o FmtDots(a.width, dp) \o "," \o FmtInt(a.lines) \o ","
              \o FmtInt(0) \o "," \o a.justification \o "," \o FmtInt(0))

textblock(c, dp, a) ==
    IF ~InList(a.justification, <<"L", "R", "C", "J">>)
    THEN Raise(c, "AssertionError")
    ELSE Ok(c \o "^FB" \o FmtDots(a.width, dp) \o "," \o FmtInt(a.lines) \o ","
              \o FmtInt(0) \o "," \o a.justification \o "," \o FmtInt(0))

\* write_text, lines 63-72: the font selection.
write_text_font(c, dp, a) ==
    IF TruthyNum(a.char_height) /\ TruthyNum(a.char_width) /\ a.font # "" /\ a.orientation # ""
    THEN IF ~InStr(a.orientation, "NRIB")
         THEN Raise(c, "AssertionError")
         ELSE IF MatchGlyph(a.font)
              THEN IF IsChar(a.font) /\ IsChar(a.orientation)
                   THEN Ok(c \o "^A" \o a.font \o a.orientation \o ","
                             \o FmtDots(a.char_height[1], dp) \o ","
                             \o FmtDots(a.char_width[1], dp))
                   ELSE Raise(c, "TypeError")
              ELSE IF MatchFontFile(a.font)
                   THEN IF IsChar(a.orientation)
                        THEN Ok(c \o "^A@" \o a.orientation \o ","
                                  \o FmtDots(a.char_height[1], dp) \o ","
                                  \o FmtDots(a.char_width[1], dp) \o "," \o a.font)
                        ELSE Raise(c, "TypeError")
                   ELSE Raise(c, "ValueError")
    ELSE Ok(c)

\* write_text, lines 73-76: the line wrap.
write_text_wrap(c, dp, a) ==
    IF TruthyNum(a.line_width)
    THEN IF ~InStr(a.justification, "LCRJ")
         THEN Raise(c, "AssertionError")
         ELSE IF IsChar(a.justification)
              THEN Ok(c \o "^FB" \o FmtDots(a.line_width[1], dp) \o "," \o FmtInt(a.max_line)
                        \o "," \o FmtInt(a.line_spaces) \o "," \o a.justification
                        \o "," \o FmtInt(a.hanging_indent))
              ELSE Raise(c, "TypeError")
    ELSE Ok(c)

\* write_text with the line wrap emitted before the font selection.
write_text_swapped(c, dp, a) ==
    LET s1 == write_text_wrap(c, dp, a)
        s2 == write_text_font(s1.code, dp, a)
    IN  IF s1.err # "" THEN s1
        ELSE IF s2.err # "" THEN s2
        ELSE Ok(s2.code \o "^FD" \o a.text)

write_text(c, dp, a) ==
    LET s1 == write_text_font(c, dp, a)
        s2 == write_text_wrap(s1.code, dp, a)
    IN  IF s1.err # "" THEN s1
        ELSE IF s2.err # "" THEN s2
        ELSE Ok(s2.code \o "^FD" \o a.text)

set_default_font(c, dp, a) ==
    IF ~MatchGlyphPrefix(a.font)
    THEN Raise(c, "AssertionError")
    ELSE IF IsChar(a.font)
         THEN Ok(c \o "^CF" \o a.font \o "," \o FmtDots(a.height, dp) \o ","
                   \o FmtDots(a.width, dp))
         ELSE Raise(c, "TypeError")

draw_box(c, dp, a) ==
    IF ~InStr(a.color, "BW") THEN Raise(c, "AssertionError")
    ELSE IF ~(a.rounding <= 8) THEN Raise(c, "AssertionError")
    ELSE IF IsChar(a.color)
         THEN Ok(c \o "^GB," \o FmtInt(a.width) \o "," \o FmtInt(a.height) \o ","
                   \o FmtInt(a.thickness) \o "," \o a.color \o "," \o FmtInt(a.rounding))
         ELSE Raise(c, "TypeError")

draw_ellipse(c, dp, a) ==
    IF ~InStr(a.color, "BW") THEN Raise(c, "AssertionError")
    ELSE IF IsChar(a.color)
         THEN Ok(c \o "^GE," \o FmtInt(a.width) \o "," \o FmtInt(a.height) \o ","
                   \o FmtInt(a.thickness) \o "," \o a.color)
         ELSE Raise(c, "TypeError")

print_graphic(c, dp, a) ==
    Ok(c \o "^XG" \o a.name \o "," \o FmtInt(a.scale_x) \o "," \o FmtInt(a.scale_y))

\* The format string is appended as it is: filename is not substituted.
run_script(c, dp, a) == Ok(c \o "^XF%s^FS")

-----------------------------------------------------------------------------
(* Graphics.  An image is [size |-> <<w, h>>, fill |-> b]: its pixel size  *)
(* and the byte value b that every packed byte of its inverted 1-bit form  *)
(* has (0 for a white image, 255 for a black one).                         *)

HexDigit(d) == SubSeq("0123456789ABCDEF", d + 1, d + 1)

\* bytes.hex().upper() of one byte.
HexByte(b) == HexDigit(b \div 16) \o HexDigit(b % 16)

RECURSIVE Repeat(_, _)
Repeat(s, n) ==
    IF n <= 0 THEN ""
    ELSE IF n % 2 = 0 THEN LET half == Repeat(s, n \div 2) IN half \o half
    ELSE s \o Repeat(s, n - 1)

\* The pixel size image.resize is called with: (int(width*dpmm), int(height*dpmm)).
ResizedTo(dp, w, h) == <<Trunc(w * dp, Den * Den), Trunc(h * dp, Den * Den)>>

\* image.tobytes() of a 1-bit image of the size sz, in hex: each row is packed
\* into ceil(columns/8) bytes.
ToBytesHex(image, sz) == Repeat(HexByte(image.fill), Ceil(sz[1], 8) * sz[2])

_convert_image(image, dp, w, h, compression_type) ==
    IF compression_type = "A"
    THEN [err |-> "", data |-> ToBytesHex(image, ResizedTo(dp, w, h))]
    ELSE [err |-> "Exception", data |-> ""]

\* int(float(image.size[1])/image.size[0]*width), as a millimeter value.
ProportionalHeight(image, w) == Den * Trunc(image.size[2] * w, image.size[1] * Den)

\* math.ceil(width*self.dpmm/8.0)
BytesPerRow(dp, w) == Ceil(w * dp, 8 * Den * Den)

\* "%i" % (math.ceil(width*self.dpmm/8.0)*height*self.dpmm)
FmtTotalBytes(dp, w, h) == FmtI(BytesPerRow(dp, w) * h * dp, Den * Den)

upload_graphic(c, dp, a) ==
    LET h    == IF a.height = 0 THEN ProportionalHeight(a.image, a.width) ELSE a.height
        conv == _convert_image(a.image, dp, a.width, h, "A")
    IN  IF ~(1 <= Len(a.name) /\ Len(a.name) <= 8) THEN Raise(c, "AssertionError")
        ELSE IF conv.err # "" THEN Raise(c, conv.err)
        ELSE Returns(c \o "~DG" \o a.name \o ".GRF," \o FmtTotalBytes(dp, a.width, h) \o ","
                       \o FmtInt(BytesPerRow(dp, a.width)) \o "," \o conv.data, h)

write_graphic(c, dp, a) ==
    LET h    == IF a.height = 0 THEN ProportionalHeight(a.image, a.width) ELSE a.height
        conv == _convert_image(a.image, dp, a.width, h, a.compression_type)
        tail == "," \o FmtInt(Len(conv.data)) \o "," \o FmtTotalBytes(dp, a.width, h) \o ","
                    \o FmtInt(BytesPerRow(dp, a.width)) \o "," \o conv.data
    IN  IF conv.err # "" THEN Raise(c, conv.err)
        ELSE IF a.compression_type = "A" THEN Returns(c \o "^GFA" \o tail, h)
        ELSE IF a.compression_type = "B" THEN Returns(c \o "^GFB" \o tail, h)
        ELSE Raise(c, "Exception")

-----------------------------------------------------------------------------

\* write_field_number, lines 170-174: the font selection.
write_field_number_font(c, dp, a) ==
    IF TruthyNum(a.char_height) /\ TruthyNum(a.char_width) /\ a.font # "" /\ a.orientation # ""
    THEN IF ~MatchGlyphPrefix(a.font) THEN Raise(c, "AssertionError")
         ELSE IF ~InStr(a.orientation, "NRIB") THEN Raise(c, "AssertionError")
         ELSE IF IsChar(a.font) /\ IsChar(a.orientation)
              THEN Ok(c \o "^A" \o a.font \o a.orientation \o ","
                        \o FmtDots(a.char_height[1], dp) \o ","
                        \o FmtDots(a.char_width[1], dp))
              ELSE Raise(c, "TypeError")
    ELSE Ok(c)

\* write_field_number, lines 175-178: the line wrap.
write_field_number_wrap(c, dp, a) ==
    IF TruthyNum(a.line_width)
    THEN IF ~InStr(a.justification, "LCRJ")
         THEN Raise(c, "AssertionError")
         ELSE IF IsChar(a.justification)
              THEN Ok(c \o "^FB" \o FmtDots(a.line_width[1], dp) \o "," \o FmtInt(a.max_line)
                        \o "," \o FmtInt(a.line_spaces) \o "," \o a.justification
                        \o "," \o FmtInt(a.hanging_indent))
              ELSE Raise(c, "TypeError")
    ELSE Ok(c)

write_field_number(c, dp, a) ==
    LET s1 == write_field_number_font(c, dp, a)
        s2 == write_field_number_wrap(s1.code, dp, a)
        c3 == s2.code \o "^FN" \o FmtInt(a.number)
    IN  IF s1.err # "" THEN s1
        ELSE IF s2.err # "" THEN s2
        ELSE IF TruthyStr(a.name)
             THEN IF ~MatchName(a.name[1])
                  THEN Raise(c3, "AssertionError")
                  ELSE Ok(c3 \o "\"" \o a.name[1] \o "\"")
             ELSE Ok(c3)

\* barcode_zpl with the field order of type '2' for every type.
barcode_zpl_uniform(a) ==
    "^B" \o a.barcode_type \o a.orientation \o "," \o FmtInt(a.height) \o ","
         \o a.print_interpretation_line \o "," \o a.print_interpretation_line_above
         \o "," \o a.check_digit

\* write_barcode, lines 190-204: the barcode command of each type.  The height
\* is a Python int, which '%i' (types '2', '3') and '%s' (type 'U') print alike.
barcode_zpl(a) ==
    IF a.barcode_type = "2"
    THEN "^B" \o a.barcode_type \o a.orientation \o "," \o FmtInt(a.height) \o ","
              \o a.print_interpretation_line \o "," \o a.print_interpretation_line_above
              \o "," \o a.check_digit
    ELSE IF a.barcode_type = "3"
    THEN "^B" \o a.barcode_type \o a.orientation \o "," \o a.check_digit \o ","
              \o FmtInt(a.height) \o "," \o a.print_interpretation_line \o ","
              \o a.print_interpretation_line_above
    ELSE "^B" \o a.barcode_type \o a.orientation \o "," \o FmtInt(a.height) \o ","
              \o a.print_interpretation_line \o "," \o a.print_interpretation_line_above
              \o "," \o a.check_digit

\* write_barcode, line 206: '^BY%s' % thin_bar_width if thin_bar_width else "".
bar_width_modifier(a) ==
    IF TruthyStr(a.thin_bar_width) THEN "^BY" \o a.thin_bar_width[1] ELSE ""

\* write_barcode with `=` for `+=`: the buffer is replaced, not extended.
write_barcode_assign(c, dp, a) ==
    IF ~InList(a.barcode_type, <<"2", "3", "U">>)
    THEN Raise(c, "AssertionError")
    ELSE Ok(bar_width_modifier(a) \o barcode_zpl(a))

write_barcode(c, dp, a) ==
    IF ~InList(a.barcode_type, <<"2", "3", "U">>)
    THEN Raise(c, "AssertionError")
    ELSE Ok(c \o bar_width_modifier(a) \o barcode_zpl(a))

\* dumpZPL storing the end marker in the buffer.
dumpZPL_stores(c, dp, a) == Returns(c \o "^XZ", c \o "^XZ")

dumpZPL(c, dp, a) == Returns(c, c \o "^XZ")

\* saveFormat appending its fragment like every other method.
saveFormat_append(c, dp, a) == Ok(c \o ("^DF" \o a.name \o "^FS"))

\* self.code[:3] + ("^DF%s^FS" % name) + self.code[3:]
saveFormat(c, dp, a) ==
    Ok(Slice(c, 1, 3) \o ("^DF" \o a.name \o "^FS") \o Slice(c, 4, Len(c)))

-----------------------------------------------------------------------------
(* The state machine: a Label is constructed, then its methods are called. *)

\* self.dpmm: 12.0 (the default) and 1.0.
DpmmSet == {12 * Den, Den}

Init ==
    \E rotate_180 \in BOOLEAN, dp \in DpmmSet :
        /\ code = InitCode(rotate_180)
        /\ height = 65 * Den
        /\ width = 110 * Den
        /\ dpmm = dp
        /\ last = [op |-> "__init__", a |-> [rotate_180 |-> rotate_180], pre |-> "",
                   err |-> "", ret |-> None]
        /\ hist = [rotate_180 |-> rotate_180, calls |-> <<>>]
        /\ ncalls = 0

\* A call of the method op with the arguments a, whose outcome is r.
Call(op, a, r) ==
    /\ code' = r.code
    /\ last' = [op |-> op, a |-> a, pre |-> code, err |-> r.err, ret |-> r.ret]
    /\ hist' = [hist EXCEPT !.calls = Append(@, [op |-> op, pre |-> code, post |-> r.code,
                                                  err |-> r.err, ret |-> r.ret])]
    /\ ncalls' = ncalls + 1
    /\ UNCHANGED <<height, width, dpmm>>

NoArgs == [none |-> TRUE]

\* One action per method; A is the set of argument records the caller draws from.
Origin(A) == \E a \in A : Call("origin", a, origin(code, dpmm, a))

EndOrigin == Call("endorigin", NoArgs, endorigin(code, dpmm, NoArgs))

TextBlock(A) == \E a \in A : Call("textblock", a, textblock(code, dpmm, a))

WriteText(A) == \E a \in A : Call("write_text", a, write_text(code, dpmm, a))

SetDefaultFont(A) == \E a \in A : Call("set_default_font", a, set_default_font(code, dpmm, a))

\* The external resize is given a size of at least one pixel each way, and
\* the packed bitmap is at most MaxBytes long.
Resizable(dp, a) ==
    LET h  == IF a.height = 0 THEN ProportionalHeight(a.image, a.width) ELSE a.height
        sz == ResizedTo(dp, a.width, h)
    IN  sz[1] >= 1 /\ sz[2] >= 1 /\ Ceil(sz[1], 8) * sz[2] <= MaxBytes

UploadGraphic(A) ==
    \E a \in A : Resizable(dpmm, a) /\ Call("upload_graphic", a, upload_graphic(code, dpmm, a))

WriteGraphic(A) ==
    \E a \in A : Resizable(dpmm, a) /\ Call("write_graphic", a, write_graphic(code, dpmm, a))

DrawBox(A) == \E a \in A : Call("draw_box", a, draw_box(code, dpmm, a))

DrawEllipse(A) == \E a \in A : Call("draw_ellipse", a, draw_ellipse(code, dpmm, a))

PrintGraphic(A) == \E a \in A : Call("print_graphic", a, print_graphic(code, dpmm, a))

RunScript(A) == \E a \in A : Call("run_script", a, run_script(code, dpmm, a))

WriteFieldNumber(A) ==
    \E a \in A : Call("write_field_number", a, write_field_number(code, dpmm, a))

WriteBarcode(A) == \E a \in A : Call("write_barcode", a, write_barcode(code, dpmm, a))

DumpZPL == Call("dumpZPL", NoArgs, dumpZPL(code, dpmm, NoArgs))

SaveFormat(A) == \E a \in A : Call("saveFormat", a, saveFormat(code, dpmm, a))

-----------------------------------------------------------------------------
(* The arguments the caller draws from.  The defaults are those of the     *)
(* method signatures.                                                      *)

TextDefaults ==
    [text |-> "PN", char_height |-> None, char_width |-> None, font |-> "0",
     orientation |-> "N", line_width |-> None, max_line |-> 1, line_spaces |-> 0,
     justification |-> "L", hanging_indent |-> 0]

FieldNumberDefaults ==
    [number |-> 1, name |-> None, char_height |-> None, char_width |-> None, font |-> "0",
     orientation |-> "N", line_width |-> None, max_line |-> 1, line_spaces |-> 0,
     justification |-> "L", hanging_indent |-> 0]

BarcodeDefaults ==
    [height |-> 50, barcode_type |-> "3", orientation |-> "N", check_digit |-> "N",
     print_interpretation_line |-> "Y", print_interpretation_line_above |-> "N",
     thin_bar_width |-> None]

WhiteImage == [size |-> <<200, 100>>, fill |-> 0]

BlackImage == [size |-> <<1, 1>>, fill |-> 255]

\* With Den = 2: -1.5, 0, 1.5, 3.5, 5.5 and 10 millimeters.
OriginArgs ==
    [x : {-3, 0, 3, 7, 11, 10 * Den}, y : {0, 3, 7, 11, 5 * Den}]

TextBlockArgs ==
    [width : {3, 10 * Den}, justification : {"L", "R", "C", "J", "X", "", "LC", "l"},
     lines : {1, 2}]

FontTokens == {"0", "A", "a", "AB", "A\n", "E:A.FNT", ":X_1.TTF", "E:A.FNTX", "E:A.TXT", "!"}

\* The font group (char_height, char_width, orientation) and the wrap group
\* (line_width, justification) of write_text and write_field_number.
FontGroups ==
    { [char_height |-> ch, char_width |-> cw, orientation |-> o] :
        ch \in {None, Some(0), Some(5 * Den)}, cw \in {None, Some(4 * Den)}, o \in {"N", "X"} }

WrapGroups ==
    { [line_width |-> lw, justification |-> j] :
        lw \in {None, Some(0), Some(20 * Den)}, j \in {"L", "X"} }

WriteTextArgs ==
    { [TextDefaults EXCEPT !.font = f, !.char_height = g.char_height,
                           !.char_width = g.char_width, !.orientation = g.orientation,
                           !.line_width = w.line_width, !.justification = w.justification] :
        f \in FontTokens, g \in FontGroups, w \in WrapGroups }

BarcodeArgs ==
    { [BarcodeDefaults EXCEPT !.barcode_type = t, !.check_digit = cd,
                              !.print_interpretation_line = pil,
                              !.print_interpretation_line_above = pila,
                              !.thin_bar_width = tbw, !.height = h] :
        t \in {"2", "3", "U", "X"}, cd \in {"N", "Y"}, pil \in {"Y", "N"},
        pila \in {"N", "Y"}, tbw \in {None, Some(""), Some("3")}, h \in {50, 7} }

GraphicSizes ==
    [width : {Den, 8 * Den, 17, 96 * Den}, height : {0, 2 * Den, 5, 50 * Den}]

WriteGraphicArgs ==
    { [image |-> im, width |-> g.width, height |-> g.height, compression_type |-> ct] :
        im \in {WhiteImage, BlackImage}, g \in GraphicSizes, ct \in {"A", "B", "C"} }

UploadGraphicArgs ==
    { [name |-> n, image |-> im, width |-> g.width, height |-> g.height] :
        n \in {"LOGO", "", "LONGNAME9"}, im \in {WhiteImage, BlackImage}, g \in GraphicSizes }

\* The arguments of the specification of all methods: for each method a call
\* that succeeds and, where the method can fail, calls that fail.
FewOriginArgs == {[x |-> 10 * Den, y |-> 5 * Den]}

FewTextBlockArgs == {[width |-> 10 * Den, justification |-> j, lines |-> 1] : j \in {"C", "X"}}

FewWriteTextArgs ==
    { TextDefaults,
      [TextDefaults EXCEPT !.char_height = Some(5 * Den), !.char_width = Some(4 * Den),
                           !.line_width = Some(20 * Den)],
      [TextDefaults EXCEPT !.char_height = Some(5 * Den), !.char_width = Some(4 * Den),
                           !.line_width = Some(20 * Den), !.justification = "X"],
      [TextDefaults EXCEPT !.char_height = Some(5 * Den), !.char_width = Some(4 * Den),
                           !.font = "a"] }

FewFontArgs == {[height |-> 5 * Den, width |-> 4 * Den, font |-> f] : f \in {"0", "a", "AB"}}

FewUploadGraphicArgs ==
    {[name |-> n, image |-> BlackImage, width |-> Den, height |-> Den] : n \in {"LOGO", ""}}

FewWriteGraphicArgs ==
    {[image |-> BlackImage, width |-> Den, height |-> Den, compression_type |-> ct] :
        ct \in {"A", "B"}}

FewBoxArgs ==
    {[width |-> 100, height |-> 50, thickness |-> 1, color |-> c, rounding |-> r] :
        c \in {"B", "X"}, r \in {0, 9}}

FewEllipseArgs ==
    {[width |-> 100, height |-> 50, thickness |-> 1, color |-> c] : c \in {"W", "BW"}}

FewPrintGraphicArgs == {[name |-> "LOGO", scale_x |-> 1, scale_y |-> 1]}

FewRunScriptArgs == {[filename |-> "SCRIPT"]}

FewFieldNumberArgs ==
    { FieldNumberDefaults,
      [FieldNumberDefaults EXCEPT !.name = Some("SN 1")],
      [FieldNumberDefaults EXCEPT !.name = Some("a-b")],
      [FieldNumberDefaults EXCEPT !.char_height = Some(5 * Den), !.char_width = Some(4 * Den),
                                  !.line_width = Some(20 * Den), !.justification = "X"] }

FewBarcodeArgs ==
    { [BarcodeDefaults EXCEPT !.barcode_type = t, !.thin_bar_width = tbw] :
        t \in {"3", "X"}, tbw \in {None, Some("3")} }

FewSaveFormatArgs == {[name |-> "FMT"]}

-----------------------------------------------------------------------------
(* Specifications *)

\* Every method, in call sequences of up to MaxCalls calls.
Next ==
    /\ ncalls < MaxCalls
    /\ \/ Origin(FewOriginArgs)
       \/ EndOrigin
       \/ TextBlock(FewTextBlockArgs)
       \/ WriteText(FewWriteTextArgs)
       \/ SetDefaultFont(FewFontArgs)
       \/ UploadGraphic(FewUploadGraphicArgs)
       \/ WriteGraphic(FewWriteGraphicArgs)
       \/ DrawBox(FewBoxArgs)
       \/ DrawEllipse(FewEllipseArgs)
       \/ PrintGraphic(FewPrintGraphicArgs)
       \/ RunScript(FewRunScriptArgs)
       \/ WriteFieldNumber(FewFieldNumberArgs)
       \/ WriteBarcode(FewBarcodeArgs)
       \/ DumpZPL
       \/ SaveFormat(FewSaveFormatArgs)

Spec == Init /\ [][Next]_vars

\* origin alone, over all its arguments.
NextOrigin == ncalls < MaxRichCalls /\ Origin(OriginArgs)

SpecOrigin == Init /\ [][NextOrigin]_vars

\* textblock alone, over all its arguments.
NextTextBlock == ncalls < MaxRichCalls /\ TextBlock(TextBlockArgs)

SpecTextBlock == Init /\ [][NextTextBlock]_vars

\* write_text alone, over all its arguments.
NextWriteText == ncalls < MaxRichCalls /\ WriteText(WriteTextArgs)

SpecWriteText == Init /\ [][NextWriteText]_vars

\* write_barcode alone, over all its arguments.
NextBarcode == ncalls < MaxRichCalls /\ WriteBarcode(BarcodeArgs)

SpecBarcode == Init /\ [][NextBarcode]_vars

\* The two graphic methods, over all their arguments.
NextGraphic ==
    /\ ncalls < MaxRichCalls
    /\ \/ WriteGraphic(WriteGraphicArgs)
       \/ UploadGraphic(UploadGraphicArgs)

SpecGraphic == Init /\ [][NextGraphic]_vars

-----------------------------------------------------------------------------
(* Properties *)

\* The methods that append to the buffer.
AppendOps ==
    {"origin", "endorigin", "textblock", "write_text", "set_default_font",
     "upload_graphic", "write_graphic", "draw_box", "draw_ellipse", "print_graphic",
     "run_script", "write_field_number", "write_barcode"}

\* The text the last call added at the end of the buffer.
Added == Suffix(last.pre, code)

RECURSIVE ConcatAdded(_, _)
ConcatAdded(calls, n) ==
    IF n = 0 THEN ""
    ELSE ConcatAdded(calls, n - 1) \o Suffix(calls[n].pre, calls[n].post)

\* C1: a call of an append method that fails with an error leaves the buffer
\* as it was before the call.
C1_FailedCallLeavesBuffer ==
    (last.op \in AppendOps /\ last.err # "") => code = last.pre

\* C2: after a sequence of successful calls of append methods (no saveFormat),
\* the buffer is "^XA", then "^POI" iff rotate_180, then what each call added,
\* in call order; each call keeps the buffer before it as a prefix.
C2_AppendInCallOrder ==
    LET calls == hist.calls
    IN  (\A i \in 1..Len(calls) : calls[i].op \in AppendOps /\ calls[i].err = "") =>
            /\ \A i \in 1..Len(calls) : IsPrefix(calls[i].pre, calls[i].post)
            /\ code = "^XA" \o (IF hist.rotate_180 THEN "^POI" ELSE "")
                            \o ConcatAdded(calls, Len(calls))

C2_Witness ==
    /\ Len(hist.calls) = 3
    /\ hist.rotate_180
    /\ hist.calls[1].op = "write_barcode" /\ hist.calls[1].err = ""
    /\ hist.calls[2].op = "write_text" /\ hist.calls[2].err = ""
    /\ hist.calls[3].op = "write_barcode" /\ hist.calls[3].err = ""
    /\ Len(code) > Len(hist.calls[3].pre)

\* C3: saveFormat(name) puts "^DF<name>^FS" right after the "^XA" the buffer
\* starts with; the marker and all that followed it are kept in order, and the
\* buffer grows by the length of the fragment.
C3_SaveFormatSplices ==
    last.op = "saveFormat" =>
        LET frag == "^DF" \o last.a.name \o "^FS"
        IN  /\ last.err = ""
            /\ IsPrefix("^XA", last.pre)
            /\ code = "^XA" \o frag \o SubSeq(last.pre, 4, Len(last.pre))
            /\ Len(code) = Len(last.pre) + Len(frag)

C3_Witness ==
    /\ last.op = "saveFormat"
    /\ hist.rotate_180
    /\ Len(hist.calls) = 3
    /\ hist.calls[1].op = "origin" /\ hist.calls[2].op = "write_text"
    /\ hist.calls[2].err = ""

\* C4: dumpZPL returns the buffer followed by "^XZ" and leaves the buffer
\* unchanged; two calls in a row return the same; a dump after an append that
\* followed a dump returns the buffer with that append, one "^XZ" at its end.
C4_DumpNonDestructive ==
    LET calls == hist.calls
    IN  \A i \in 1..Len(calls) :
            calls[i].op = "dumpZPL" =>
                /\ calls[i].err = ""
                /\ calls[i].ret = Some(calls[i].pre \o "^XZ")
                /\ calls[i].post = calls[i].pre
                /\ (i > 1 /\ calls[i - 1].op = "dumpZPL") => calls[i].ret = calls[i - 1].ret
                /\ ~InStr("^XZ", calls[i].pre)

C4_Witness ==
    /\ Len(hist.calls) = 3
    /\ hist.calls[1].op = "dumpZPL"
    /\ hist.calls[2].op = "origin"
    /\ hist.calls[3].op = "dumpZPL"
    /\ hist.calls[3].ret # hist.calls[1].ret

-----------------------------------------------------------------------------
(* Reading a fragment back *)

\* The number of places where t occurs in s.
CountStr(t, s) == Cardinality({i \in 1..Len(s) : Slice(s, i, i + Len(t) - 1) = t})

CommaPos(s) == {i \in 1..Len(s) : Ch(s, i) = ","}

\* The position of the k-th comma of s; 0 for k = 0, Len(s) + 1 past the last.
NthComma(s, k) ==
    LET P == CommaPos(s)
    IN  IF k = 0 THEN 0
        ELSE IF k > Cardinality(P) THEN Len(s) + 1
        ELSE CHOOSE i \in P : Cardinality({j \in P : j < i}) = k - 1

\* The k-th comma-separated field of s.
Field(s, k) == SubSeq(s, NthComma(s, k - 1) + 1, NthComma(s, k) - 1)

NFields(s) == Cardinality(CommaPos(s)) + 1

Abs(n) == IF n < 0 THEN -n ELSE n

\* t is n/d with its fractional part dropped.
IsTruncation(t, n, d) ==
    IF n >= 0 THEN t * d <= n /\ n < (t + 1) * d
    ELSE t * d >= n /\ n > (t - 1) * d

\* n/d rounded to the nearest integer, a half rounding up.
RoundHalfUp(n, d) == (2 * n + d) \div (2 * d)

-----------------------------------------------------------------------------

\* C6 as stated: origin(x, y) appends "^FO<dx>,<dy>" with dx = round(x*dpmm)
\* and dy = round(y*dpmm).
C6_OriginRounds ==
    last.op = "origin" =>
        Added = "^FO" \o FmtInt(RoundHalfUp(last.a.x * dpmm, Den * Den)) \o ","
                      \o FmtInt(RoundHalfUp(last.a.y * dpmm, Den * Den))

\* C6: origin(x, y) appends "^FO<dx>,<dy>" where dx is x*dpmm and dy is y*dpmm
\* with the fractional part dropped; origin(10, 5) with dpmm = 12 appends
\* "^FO120,60".
C6_OriginTruncates ==
    last.op = "origin" =>
        LET nx == last.a.x * dpmm
            ny == last.a.y * dpmm
        IN  /\ last.err = ""
            /\ IsPrefix(last.pre, code)
            /\ \E dx \in -Abs(nx)..Abs(nx), dy \in -Abs(ny)..Abs(ny) :
                  /\ IsTruncation(dx, nx, Den * Den)
                  /\ IsTruncation(dy, ny, Den * Den)
                  /\ Added = "^FO" \o FmtInt(dx) \o "," \o FmtInt(dy)
            /\ (last.a.x = 10 * Den /\ last.a.y = 5 * Den /\ dpmm = 12 * Den)
                  => Added = "^FO120,60"

\* origin(1.5, 3.5) with dpmm = 1.0: both products have a fraction of one half.
C6_Witness ==
    /\ last.op = "origin"
    /\ last.a.x > 0 /\ (2 * ((last.a.x * dpmm) % (Den * Den)) >= Den * Den)
    /\ last.a.y > 0 /\ (2 * ((last.a.y * dpmm) % (Den * Den)) >= Den * Den)
    /\ Added = "^FO1,3"

\* C7: textblock succeeds and appends one "^FB..." fragment for a justification
\* of L, R, C or J; for any other justification it fails and the buffer is
\* unchanged.
C7_TextBlockJustification ==
    last.op = "textblock" =>
        IF last.a.justification \in {"L", "R", "C", "J"}
        THEN /\ last.err = ""
             /\ IsPrefix(last.pre, code)
             /\ IsPrefix("^FB", Added)
             /\ CountStr("^", Added) = 1
             /\ Field(Added, 4) = last.a.justification
        ELSE /\ last.err # ""
             /\ code = last.pre

C7_Witness ==
    /\ last.op = "textblock"
    /\ last.a.justification = "J"
    /\ last.err = ""
    /\ Added = "^FB120,2,0,J,0"


\* The two font shapes of the specification: one alphanumeric character, or
\* an external font reference that ends in a font-file extension.
ValidFontShape(f) ==
    \/ Len(f) = 1 /\ InClass(f, UPPER \o LOWER \o DIGITS)
    \/ /\ MatchFontFile(f)
       /\ Slice(f, Len(f) - 3, Len(f)) \in {".FNT", ".TTF", ".TTE"}

\* C8: write_text fails for every font token of neither shape, whatever the
\* other arguments are, and appends no field data for it.
C8_InvalidFontRejected ==
    (last.op = "write_text" /\ ~ValidFontShape(last.a.font)) =>
        /\ last.err # ""
        /\ ~InStr("^FD", Added)

\* Python truthiness stands for "provided": None, 0 and '' count as not given.
FontGiven(a) ==
    TruthyNum(a.char_height) /\ TruthyNum(a.char_width) /\ a.font # "" /\ a.orientation # ""

WrapGiven(a) == TruthyNum(a.line_width)

\* C10: a successful write_text adds, in this order, one "^A..." fragment iff
\* char_height, char_width, font and orientation are all given, one "^FB..."
\* fragment iff line_width is given, and last one "^FD<text>".
C10_WriteTextFragments ==
    (last.op = "write_text" /\ last.err = "") =>
        LET a    == last.a
            data == "^FD" \o a.text
            head == SubSeq(Added, 1, Len(Added) - Len(data))
            nA   == IF FontGiven(a) THEN 1 ELSE 0
            nFB  == IF WrapGiven(a) THEN 1 ELSE 0
        IN  /\ IsPrefix(last.pre, code)
            /\ Len(Added) >= Len(data)
            /\ Suffix(head, Added) = data
            /\ CountStr("^FD", Added) = 1
            /\ CountStr("^A", head) = nA
            /\ CountStr("^FB", head) = nFB
            /\ CountStr("^", head) = nA + nFB
            /\ FontGiven(a) => IsPrefix("^A", head)
            /\ (WrapGiven(a) /\ ~FontGiven(a)) => IsPrefix("^FB", head)

C10_Witness ==
    /\ last.op = "write_text"
    /\ last.err = ""
    /\ FontGiven(last.a) /\ WrapGiven(last.a)
    /\ last.a.font = "E:A.FNT"
    /\ Added = "^A@N,60,48,E:A.FNT^FB240,1,0,L,0^FDPN"

\* C9: write_barcode adds "^B<type><orientation>" and four fields: height,
\* interpretation line, line above, check digit for the types '2' and 'U';
\* check digit, height, interpretation line, line above for the type '3'.
\* "^BY<thin_bar_width>" comes right before it iff thin_bar_width is given
\* (None and '' count as not given).  Any other type fails and the buffer is
\* unchanged.
C9_BarcodeFieldOrder ==
    last.op = "write_barcode" =>
        LET a   == last.a
            by  == IF TruthyStr(a.thin_bar_width) THEN "^BY" \o a.thin_bar_width[1] ELSE ""
            bar == Suffix(by, Added)
            h   == FmtInt(a.height)
            il  == a.print_interpretation_line
            ia  == a.print_interpretation_line_above
            cd  == a.check_digit
            fields == <<Field(bar, 2), Field(bar, 3), Field(bar, 4), Field(bar, 5)>>
        IN  IF a.barcode_type \in {"2", "3", "U"}
            THEN /\ last.err = ""
                 /\ IsPrefix(last.pre, code)
                 /\ IsPrefix(by, Added)
                 /\ CountStr("^BY", Added) = (IF TruthyStr(a.thin_bar_width) THEN 1 ELSE 0)
                 /\ CountStr("^", bar) = 1
                 /\ NFields(bar) = 5
                 /\ Field(bar, 1) = "^B" \o a.barcode_type \o a.orientation
                 /\ a.barcode_type = "2" => fields = <<h, il, ia, cd>>
                 /\ a.barcode_type = "3" => fields = <<cd, h, il, ia>>
                 /\ a.barcode_type = "U" => fields = <<h, il, ia, cd>>
            ELSE /\ last.err # ""
                 /\ code = last.pre

C9_Witness ==
    /\ last.op = "write_barcode"
    /\ last.a.barcode_type = "3"
    /\ last.a.check_digit = "Y"
    /\ last.a.print_interpretation_line = "N"
    /\ last.a.print_interpretation_line_above = "Y"
    /\ Added = "^BY3^B3N,Y,50,N,Y"

\* C5: for write_graphic and upload_graphic, with the bitmap resized to
\* widthDots x heightDots, the bytes-per-row field is ceil(widthDots/8) and the
\* total-bytes field is bytesPerRow * heightDots.
C5_RasterSizeFields ==
    (last.op \in {"write_graphic", "upload_graphic"} /\ last.err = "") =>
        LET sz  == ResizedTo(dpmm, last.a.width, last.ret[1])
            bpr == Ceil(sz[1], 8)
            k   == IF last.op = "write_graphic" THEN 3 ELSE 2
        IN  /\ Field(Added, k + 1) = FmtInt(bpr)
            /\ Field(Added, k) = FmtInt(bpr * sz[2])

=============================================================================
